---- MODULE Spec2Model ----
(***************************************************************************)
(* Model of src/src/App.js: the App component (marker list, selection,     *)
(* map reference and panTo), the Locate button and the Search combobox.    *)
(* Every event handler and every asynchronous completion (suggestion       *)
(* fetch, geocode, geolocation sensor) is one action; handlers run one at  *)
(* a time, completions arrive in any order.                                *)
(***************************************************************************)
EXTENDS Integers, Sequences, FiniteSets

\* ---------------------------------------------------------------- bounds
MaxEvents == 4       \* map clicks + keystrokes + suggestion selections + locate clicks in a run
MaxTime == 1         \* clock instants after the first
MaxCandidates == 2   \* candidates in one geocode response

\* ------------------------------------------------------------- constants
\* null, as a value comparable with marker objects (no marker has ref 0)
Null == [ref |-> 0]

\* coordinates are fixed-point, degrees * 100
center == [lat |-> 3777, lng |-> -12242]
InitialZoom == 8
PanZoom == 14

Coords == {[lat |-> 3778, lng |-> -12241], [lat |-> 4000, lng |-> -7500]}

\* texts the user types, and the descriptions the places service suggests
Texts == {"sa", "ph"}
Predictions(t) == IF t = "sa" THEN <<"San Jose">> ELSE <<"Philadelphia">>

Range(s) == {s[i] : i \in 1..Len(s)}

\* candidate lists a geocode response can carry
CandidateLists == UNION {[1..n -> Coords] : n \in 0..MaxCandidates}

NoSuggestions == [status |-> "", data |-> <<>>]

VARIABLES
    markers,       \* useState([]) : sequence of {lat, lng, time}; ref is the object's identity
    selected,      \* useState(null) : the selected marker object or Null
    prevSelected,  \* history: value of selected before the last selection change
    clicks,        \* history: number of map clicks handled
    now,           \* the clock read by new Date()
    mapRef,        \* useRef() : "undefined" until onMapLoad, then "map"
    view,          \* the map instance's center and zoom
    mapCalls,      \* history: the calls the map instance received from the last panTo
    value,         \* usePlacesAutocomplete value (the query text)
    suggestions,   \* usePlacesAutocomplete suggestions {status, data}
    fetches,       \* suggestion fetches in flight, tagged with their issue number
    issued,        \* history: number of suggestion fetches issued
    shownGen,      \* history: issue number of the fetch whose result suggestions holds, 0 if none
    geocodes,      \* onSelect invocations suspended at await getGeocode
    selects,       \* history: number of onSelect invocations
    resolved,      \* history: number of getGeocode promises that resolved (not rejected)
    locates,       \* history: number of clicks on the locate button
    sensorPending, \* getCurrentPosition requests without an answer yet
    sensorOk,      \* history: number of successful sensor answers
    moves,         \* history: number of panTo invocations, per caller
    logged,        \* number of console.log("Error!") executed by the catch block
    uncaught       \* number of exceptions that left a handler uncaught

vars == <<markers, selected, prevSelected, clicks, now, mapRef, view, mapCalls, value, suggestions,
          fetches, issued, shownGen, geocodes, selects, resolved, locates, sensorPending,
          sensorOk, moves, logged, uncaught>>

storeVars  == <<markers, selected, prevSelected, clicks>>
searchVars == <<value, suggestions, fetches, issued, shownGen>>
locateVars == <<locates, sensorPending, sensorOk>>

Init ==
    /\ markers = <<>>
    /\ selected = Null
    /\ prevSelected = Null
    /\ clicks = 0
    /\ now = 0
    /\ mapRef = "undefined"
    /\ view = [center |-> center, zoom |-> InitialZoom]
    /\ mapCalls = <<>>
    /\ value = ""
    /\ suggestions = NoSuggestions
    /\ fetches = {}
    /\ issued = 0
    /\ shownGen = 0
    /\ geocodes = {}
    /\ selects = 0
    /\ resolved = 0
    /\ locates = 0
    /\ sensorPending = 0
    /\ sensorOk = 0
    /\ moves = [geo |-> 0, search |-> 0]
    /\ logged = 0
    /\ uncaught = 0

\* number of events the user has started so far; every handler that adds work
\* (a marker, a fetch, a geocode, a sensor request) stops at MaxEvents
Events == clicks + issued + selects + locates

\* ------------------------------------------------------------ App: clock
Tick ==
    /\ now < MaxTime
    /\ now' = now + 1
    /\ UNCHANGED <<storeVars, mapRef, view, mapCalls, searchVars, geocodes, selects, resolved,
                   locateVars, moves, logged, uncaught>>

\* ----------------------------------------------------- App: marker store
newMarker(c, t, n) == [lat |-> c.lat, lng |-> c.lng, time |-> t, ref |-> n]

\* mutants of onMapClick: the new marker put first; a click on an occupied
\* coordinate ignored
onMapClickPrepend(current, c, t) == <<newMarker(c, t, Len(current) + 1)>> \o current

onMapClickDedup(current, c, t) ==
    IF \E i \in 1..Len(current) : current[i].lat = c.lat /\ current[i].lng = c.lng
      THEN current
      ELSE Append(current, newMarker(c, t, Len(current) + 1))

onMapClick(current, c, t) == Append(current, newMarker(c, t, Len(current) + 1))

\* mutants of OnMapClick: a click drops the selection; a click recenters the map
OnMapClickClearsSelection(c) ==
    /\ Events < MaxEvents
    /\ markers' = onMapClick(markers, c, now)
    /\ clicks' = clicks + 1
    /\ selected' = Null
    /\ UNCHANGED <<prevSelected, now, mapRef, view, mapCalls, searchVars, geocodes,
                   selects, resolved, locateVars, moves, logged, uncaught>>

OnMapClickPans(c) ==
    /\ Events < MaxEvents
    /\ markers' = onMapClick(markers, c, now)
    /\ clicks' = clicks + 1
    /\ view' = [view EXCEPT !.center = [lat |-> c.lat, lng |-> c.lng]]
    /\ UNCHANGED <<selected, prevSelected, now, mapRef, mapCalls, searchVars, geocodes,
                   selects, resolved, locateVars, moves, logged, uncaught>>

OnMapClick(c) ==
    /\ Events < MaxEvents
    /\ markers' = onMapClick(markers, c, now)
    /\ clicks' = clicks + 1
    /\ UNCHANGED <<selected, prevSelected, now, mapRef, view, mapCalls, searchVars, geocodes,
                   selects, resolved, locateVars, moves, logged, uncaught>>

\* the React key of a rendered marker: marker.time.toISOString(); the clock
\* counts milliseconds, the resolution of the ISO string, so the string is
\* one-to-one with the time
markerKey(marker) == marker.time

\* mutant of MarkerClick: a copy of the marker is selected, not the list's object
MarkerClickCopy(i) ==
    /\ i \in 1..Len(markers)
    /\ selected' = [markers[i] EXCEPT !.ref = Len(markers) + 1]
    /\ prevSelected' = selected
    /\ UNCHANGED <<markers, clicks, now, mapRef, view, mapCalls, searchVars, geocodes,
                   selects, resolved, locateVars, moves, logged, uncaught>>

\* mutant of MarkerClick: a click selects only while nothing is selected
MarkerClickIfNone(i) ==
    /\ i \in 1..Len(markers)
    /\ selected' = IF selected = Null THEN markers[i] ELSE selected
    /\ prevSelected' = selected
    /\ UNCHANGED <<markers, clicks, now, mapRef, view, mapCalls, searchVars, geocodes, selects, resolved,
                   locateVars, moves, logged, uncaught>>

MarkerClick(i) ==
    /\ i \in 1..Len(markers)
    /\ selected' = markers[i]
    /\ prevSelected' = selected
    /\ UNCHANGED <<markers, clicks, now, mapRef, view, mapCalls, searchVars, geocodes, selects, resolved,
                   locateVars, moves, logged, uncaught>>

CloseClick ==
    /\ selected # Null
    /\ selected' = Null
    /\ prevSelected' = selected
    /\ UNCHANGED <<markers, clicks, now, mapRef, view, mapCalls, searchVars, geocodes, selects, resolved,
                   locateVars, moves, logged, uncaught>>

\* ------------------------------------------------------ App: map and panTo
OnMapLoad ==
    /\ mapRef = "undefined"
    /\ mapRef' = "map"
    /\ UNCHANGED <<storeVars, now, view, mapCalls, searchVars, geocodes, selects, resolved,
                   locateVars, moves, logged, uncaught>>

MapPanTo(v, c) == [v EXCEPT !.center = c]
MapSetZoom(v, z) == [v EXCEPT !.zoom = z]

\* mutant of panTo: the zoom is raised by a step instead of set
panToZoomIn(v, c) == MapSetZoom(MapPanTo(v, [lat |-> c.lat, lng |-> c.lng]), v.zoom + 6)

\* mutant of panToCalls: the zoom is set before the pan
panToCallsZoomFirst(c) ==
    << [op |-> "setZoom", arg |-> PanZoom],
       [op |-> "panTo", arg |-> [lat |-> c.lat, lng |-> c.lng]] >>

\* the calls panTo({lat, lng}) makes on the attached map, in order
panToCalls(c) ==
    << [op |-> "panTo", arg |-> [lat |-> c.lat, lng |-> c.lng]],
       [op |-> "setZoom", arg |-> PanZoom] >>

\* the view after panTo({lat, lng}) on an attached map
panTo(v, c) == MapSetZoom(MapPanTo(v, [lat |-> c.lat, lng |-> c.lng]), PanZoom)

\* mapRef.current.panTo on an undefined mapRef.current throws a TypeError
panToThrows == mapRef = "undefined"

\* ----------------------------------------------------------------- Locate
\* mutant of LocateClick: the handler asks the sensor twice
LocateClickTwice ==
    /\ Events < MaxEvents
    /\ locates' = locates + 1
    /\ sensorPending' = sensorPending + 2
    /\ UNCHANGED <<storeVars, now, mapRef, view, mapCalls, searchVars, geocodes, selects, resolved,
                   sensorOk, moves, logged, uncaught>>

LocateClick ==
    /\ Events < MaxEvents
    /\ locates' = locates + 1
    /\ sensorPending' = sensorPending + 1
    /\ UNCHANGED <<storeVars, now, mapRef, view, mapCalls, searchVars, geocodes, selects, resolved,
                   sensorOk, moves, logged, uncaught>>

SensorSuccess(c) ==
    /\ sensorPending > 0
    /\ sensorPending' = sensorPending - 1
    /\ sensorOk' = sensorOk + 1
    /\ moves' = [moves EXCEPT !.geo = @ + 1]
    /\ IF panToThrows
         THEN /\ uncaught' = uncaught + 1
              /\ view' = view
              /\ mapCalls' = mapCalls
         ELSE /\ view' = panTo(view, c)
              /\ mapCalls' = panToCalls(c)
              /\ uncaught' = uncaught
    /\ UNCHANGED <<storeVars, now, mapRef, searchVars, geocodes, selects, resolved,
                   locates, logged>>

\* mutant of SensorFailure: the error callback falls back to the default center
SensorFailureFallback ==
    /\ sensorPending > 0
    /\ sensorPending' = sensorPending - 1
    /\ moves' = [moves EXCEPT !.geo = @ + 1]
    /\ IF panToThrows
         THEN /\ uncaught' = uncaught + 1
              /\ view' = view
              /\ mapCalls' = mapCalls
         ELSE /\ view' = panTo(view, center)
              /\ mapCalls' = panToCalls(center)
              /\ uncaught' = uncaught
    /\ UNCHANGED <<storeVars, now, mapRef, searchVars, geocodes, selects, resolved,
                   locates, sensorOk, logged>>

SensorFailure ==
    /\ sensorPending > 0
    /\ sensorPending' = sensorPending - 1
    /\ UNCHANGED <<storeVars, now, mapRef, view, mapCalls, searchVars, geocodes, selects, resolved,
                   locates, sensorOk, moves, logged, uncaught>>

\* ----------------------------------------------------------------- Search
\* mutant of InputChange: the box takes no text once a suggestion was selected
InputChangeUntilSelect(t) ==
    /\ Events < MaxEvents
    /\ selects = 0
    /\ t # value
    /\ value' = t
    /\ issued' = issued + 1
    /\ fetches' = fetches \cup {[input |-> t, gen |-> issued + 1]}
    /\ UNCHANGED <<storeVars, now, mapRef, view, mapCalls, suggestions, shownGen, geocodes,
                   selects, resolved, locateVars, moves, logged, uncaught>>

InputChange(t) ==
    /\ Events < MaxEvents
    /\ t # value
    /\ value' = t
    /\ issued' = issued + 1
    /\ fetches' = fetches \cup {[input |-> t, gen |-> issued + 1]}
    /\ UNCHANGED <<storeVars, now, mapRef, view, mapCalls, suggestions, shownGen, geocodes,
                   selects, resolved, locateVars, moves, logged, uncaught>>

FetchComplete(f, ok) ==
    /\ f \in fetches
    /\ fetches' = fetches \ {f}
    /\ suggestions' = IF ok THEN [status |-> "OK", data |-> Predictions(f.input)]
                            ELSE [status |-> "ZERO_RESULTS", data |-> <<>>]
    /\ shownGen' = f.gen
    /\ UNCHANGED <<storeVars, now, mapRef, view, mapCalls, value, issued, geocodes, selects, resolved,
                   locateVars, moves, logged, uncaught>>

SelectSuggestion(address) ==
    /\ Events < MaxEvents
    /\ suggestions.status = "OK"
    /\ address \in Range(suggestions.data)
    /\ value' = address
    /\ suggestions' = NoSuggestions
    /\ shownGen' = 0
    /\ selects' = selects + 1
    /\ geocodes' = geocodes \cup {[id |-> selects + 1, address |-> address, before |-> value]}
    /\ UNCHANGED <<storeVars, now, mapRef, view, mapCalls, fetches, issued, resolved, locateVars,
                   moves, logged, uncaught>>

\* mutant of GeocodeReject: the catch block empties the search box
GeocodeRejectClearsText(g) ==
    /\ g \in geocodes
    /\ geocodes' = geocodes \ {g}
    /\ logged' = logged + 1
    /\ value' = ""
    /\ UNCHANGED <<storeVars, now, mapRef, view, mapCalls, suggestions, fetches, issued,
                   shownGen, selects, resolved, locateVars, moves, uncaught>>

GeocodeReject(g) ==
    /\ g \in geocodes
    /\ geocodes' = geocodes \ {g}
    /\ logged' = logged + 1
    /\ UNCHANGED <<storeVars, now, mapRef, view, mapCalls, searchVars, selects, resolved, locateVars,
                   moves, uncaught>>

\* mutant of GeocodeResolve: the last candidate is used instead of the first
GeocodeResolveLast(g, results) ==
    /\ g \in geocodes
    /\ geocodes' = geocodes \ {g}
    /\ IF results = <<>>
         THEN /\ logged' = logged + 1
              /\ UNCHANGED <<view, mapCalls, moves>>
         ELSE /\ moves' = [moves EXCEPT !.search = @ + 1]
              /\ IF panToThrows
                   THEN /\ logged' = logged + 1
                        /\ view' = view
                        /\ mapCalls' = mapCalls
                   ELSE /\ view' = panTo(view, results[Len(results)])
                        /\ mapCalls' = panToCalls(results[Len(results)])
                        /\ logged' = logged
    /\ resolved' = resolved + 1
    /\ UNCHANGED <<storeVars, now, mapRef, searchVars, selects, locateVars, uncaught>>

\* mutant of GeocodeResolve: an empty result throws outside the try block
GeocodeResolveUnguarded(g, results) ==
    /\ g \in geocodes
    /\ geocodes' = geocodes \ {g}
    /\ IF results = <<>>
         THEN /\ uncaught' = uncaught + 1
              /\ logged' = logged
              /\ UNCHANGED <<view, mapCalls, moves>>
         ELSE /\ moves' = [moves EXCEPT !.search = @ + 1]
              /\ uncaught' = uncaught
              /\ IF panToThrows
                   THEN /\ logged' = logged + 1
                        /\ view' = view
                        /\ mapCalls' = mapCalls
                   ELSE /\ view' = panTo(view, results[1])
                        /\ mapCalls' = panToCalls(results[1])
                        /\ logged' = logged
    /\ resolved' = resolved + 1
    /\ UNCHANGED <<storeVars, now, mapRef, searchVars, selects, locateVars>>

\* mutant of GeocodeResolve: the answer to a superseded selection is dropped
GeocodeResolveLatestOnly(g, results) ==
    /\ g \in geocodes
    /\ geocodes' = geocodes \ {g}
    /\ IF results = <<>>
         THEN /\ logged' = logged + 1
              /\ uncaught' = uncaught
              /\ UNCHANGED <<view, mapCalls, moves>>
         ELSE IF g.id < selects
         THEN /\ UNCHANGED <<view, mapCalls, moves, logged, uncaught>>
         ELSE /\ moves' = [moves EXCEPT !.search = @ + 1]
              /\ uncaught' = uncaught
              /\ IF panToThrows
                   THEN /\ logged' = logged + 1
                        /\ view' = view
                        /\ mapCalls' = mapCalls
                   ELSE /\ view' = panTo(view, results[1])
                        /\ mapCalls' = panToCalls(results[1])
                        /\ logged' = logged
    /\ resolved' = resolved + 1
    /\ UNCHANGED <<storeVars, now, mapRef, searchVars, selects, locateVars>>

\* mutant of GeocodeResolve: a successful answer writes the address into the search box
GeocodeResolveSetsText(g, results) ==
    /\ g \in geocodes
    /\ geocodes' = geocodes \ {g}
    /\ IF results = <<>>
         THEN /\ logged' = logged + 1
              /\ uncaught' = uncaught
              /\ UNCHANGED <<view, mapCalls, moves>>
         ELSE /\ moves' = [moves EXCEPT !.search = @ + 1]
              /\ uncaught' = uncaught
              /\ IF panToThrows
                   THEN /\ logged' = logged + 1
                        /\ view' = view
                        /\ mapCalls' = mapCalls
                   ELSE /\ view' = panTo(view, results[1])
                        /\ mapCalls' = panToCalls(results[1])
                        /\ logged' = logged
    /\ resolved' = resolved + 1
    /\ value' = IF results = <<>> THEN value ELSE g.address
    /\ UNCHANGED <<storeVars, now, mapRef, suggestions, fetches, issued, shownGen,
                   selects, locateVars>>

GeocodeResolve(g, results) ==
    /\ g \in geocodes
    /\ geocodes' = geocodes \ {g}
    /\ IF results = <<>>
         THEN \* getLatLng(undefined) throws inside the try block
              /\ logged' = logged + 1
              /\ UNCHANGED <<view, mapCalls, moves>>
         ELSE /\ moves' = [moves EXCEPT !.search = @ + 1]
              /\ IF panToThrows
                   THEN /\ logged' = logged + 1
                        /\ view' = view
                        /\ mapCalls' = mapCalls
                   ELSE /\ view' = panTo(view, results[1])
                        /\ mapCalls' = panToCalls(results[1])
                        /\ logged' = logged
    /\ resolved' = resolved + 1
    /\ UNCHANGED <<storeVars, now, mapRef, searchVars, selects, locateVars, uncaught>>

Next ==
    \/ Tick
    \/ \E c \in Coords : OnMapClick(c)
    \/ \E i \in 1..Len(markers) : MarkerClick(i)
    \/ CloseClick
    \/ OnMapLoad
    \/ LocateClick
    \/ \E c \in Coords : SensorSuccess(c)
    \/ SensorFailure
    \/ \E t \in Texts : InputChange(t)
    \/ \E f \in fetches, ok \in BOOLEAN : FetchComplete(f, ok)
    \/ \E a \in Range(suggestions.data) : SelectSuggestion(a)
    \/ \E g \in geocodes : GeocodeReject(g)
    \/ \E g \in geocodes, r \in CandidateLists : GeocodeResolve(g, r)

Spec == Init /\ [][Next]_vars

\* the geocode service answers a pending request: the awaiting onSelect resumes
GeocodeAnswer ==
    \/ \E g \in geocodes : GeocodeReject(g)
    \/ \E g \in geocodes, r \in CandidateLists : GeocodeResolve(g, r)

\* the same program, with every pending geocode request eventually answered
FairSpec == Spec /\ WF_vars(GeocodeAnswer)

\* ======================================================================
\* C1 -- Append-only marker list: a map click lengthens markers by exactly
\* one, and no step of any kind shortens the list or changes the marker at
\* an index that was already filled.
AppendOnly ==
    [][ /\ Len(markers') >= Len(markers)
        /\ SubSeq(markers', 1, Len(markers)) = markers
        /\ clicks' # clicks => Len(markers') = Len(markers) + 1
        /\ Len(markers') # Len(markers) => clicks' = clicks + 1 ]_vars

\* two clicks at different instants, with a selection and a camera move made
\* along the way
AppendOnlyWitness ==
    /\ Len(markers) = 2
    /\ markers[1].time < markers[2].time
    /\ selected = markers[1]
    /\ moves.geo + moves.search > 0

\* C2 -- Selection exclusivity: a click on marker N makes N the selection
\* whatever was selected before (the previous marker is dropped), and closing
\* the info window leaves no selection whatever was selected before.
SelectionExclusive ==
    [][ /\ \A i \in 1..Len(markers) : MarkerClick(i) => selected' = markers[i]
        /\ CloseClick => selected' = Null
        /\ selected' = Null \/ selected' \in Range(markers') ]_vars

\* marker N is selected and the selection it replaced was another marker M
SelectionExclusiveWitness ==
    /\ selected # Null
    /\ prevSelected # Null
    /\ selected # prevSelected

\* C3 (as stated) -- when the geocode request of a selection is rejected the
\* query text equals its value before the suggestion was selected, the
\* suggestions are empty and panTo is not invoked.
SilentFailureRestoresText ==
    [][ \A g \in geocodes : GeocodeReject(g) =>
            /\ value' = g.before
            /\ suggestions'.data = <<>>
            /\ moves' = moves ]_vars

\* C3 (amended) -- selecting a suggestion sets the query text to its
\* description and clears the suggestions at once; a later rejection of the
\* geocode request changes neither the query text nor the suggestions, logs
\* the error, and neither invokes panTo nor moves the view.
SilentFailure ==
    [][ /\ \A a \in Range(suggestions.data) : SelectSuggestion(a) =>
              value' = a /\ suggestions' = NoSuggestions
        /\ \A g \in geocodes : GeocodeReject(g) =>
              /\ value' = value
              /\ suggestions' = suggestions
              /\ moves' = moves
              /\ view' = view
              /\ uncaught' = uncaught
              /\ logged' = logged + 1 ]_vars

\* a selection failed (an error was logged without any panTo call) and the
\* query text is the selected description, not the typed text
SilentFailureWitness ==
    /\ logged = 1
    /\ moves.search = 0
    /\ geocodes = {}
    /\ selects = 1
    /\ value \notin Texts
    /\ value # ""

\* C4 -- Stale suggestion discard: whenever suggestions holds the result of a
\* fetch, no fetch issued after that one has already completed.
StaleDiscard ==
    (shownGen # 0 /\ suggestions.status = "OK") =>
        \A g \in 1..issued : g > shownGen => g \in {f.gen : f \in fetches}

\* C5 -- Geolocation success: a click on the locate button issues exactly one
\* sensor request and nothing else issues one; each successful answer with
\* coordinate c answers one request, invokes panTo exactly once and, on an
\* attached map, leaves the view at (c, 14); the number of panTo calls made
\* for geolocation equals the number of successful answers.
GeolocationSuccess ==
    [][ /\ locates' # locates =>
              locates' = locates + 1 /\ sensorPending' = sensorPending + 1
        /\ sensorPending' > sensorPending => locates' = locates + 1
        /\ \A c \in Coords : SensorSuccess(c) =>
              /\ moves'.geo = moves.geo + 1
              /\ sensorPending' = sensorPending - 1
              /\ mapRef = "map" => view' = [center |-> c, zoom |-> PanZoom]
        /\ moves'.geo = sensorOk'
        /\ sensorPending' + sensorOk' <= locates' ]_vars

\* two requests were outstanding together and both succeeded on an attached map
GeolocationSuccessWitness ==
    /\ locates = 2
    /\ sensorOk = 2
    /\ moves.geo = 2
    /\ uncaught = 0
    /\ view.zoom = PanZoom

\* C6 -- Geolocation failure: a step that answers a sensor request without
\* success invokes no panTo, leaves the view alone, issues no new sensor
\* request, raises and logs no error, and changes neither the markers, the
\* selection nor the search session.
SensorFailed == sensorPending' = sensorPending - 1 /\ sensorOk' = sensorOk

GeolocationFailure ==
    [][ SensorFailed =>
          /\ moves' = moves
          /\ view' = view
          /\ locates' = locates
          /\ uncaught' = uncaught
          /\ logged' = logged
          /\ markers' = markers
          /\ selected' = selected
          /\ value' = value
          /\ suggestions' = suggestions
          /\ fetches' = fetches
          /\ geocodes' = geocodes ]_vars

\* a request has failed while markers, a selection and a query text exist
GeolocationFailureWitness ==
    /\ locates > sensorPending + sensorOk
    /\ markers # <<>>
    /\ selected # Null
    /\ value # ""

CameraIdempotent ==
    \A c \in Coords \cup {center} : panTo(panTo(view, c), c) = panTo(view, c)

\* the camera has been moved twice on an attached map
CameraIdempotentWitness ==
    /\ moves.geo + moves.search >= 2
    /\ uncaught = 0
    /\ logged = 0
    /\ view.zoom = PanZoom

\* C9 -- Click order is list order, no deduplication: the list has one entry
\* per click handled; a click at c puts a
\* marker positioned at c at the end of the list, behind all earlier markers,
\* also when a marker at c exists already; the list entries are pairwise
\* distinct objects; a click on the i-th marker selects the i-th marker.
ClickOrder ==
    [][ /\ Len(markers') = clicks'
        /\ \A c \in Coords : OnMapClick(c) =>
              /\ Len(markers') = Len(markers) + 1
              /\ SubSeq(markers', 1, Len(markers)) = markers
              /\ markers'[Len(markers')].lat = c.lat
              /\ markers'[Len(markers')].lng = c.lng
        /\ \A i, j \in 1..Len(markers') : i # j => markers'[i] # markers'[j]
        /\ \A i \in 1..Len(markers) : MarkerClick(i) =>
              selected' = markers[i] /\ selected'.ref = i ]_vars

\* two clicks at the same coordinate in the same instant gave two entries,
\* and the second is selected
ClickOrderWitness ==
    /\ Len(markers) = 2
    /\ markers[1].lat = markers[2].lat
    /\ markers[1].lng = markers[2].lng
    /\ markers[1].time = markers[2].time
    /\ selected = markers[2]

\* C10 -- Precondition violation is never swallowed: every panTo invoked while
\* the map is not attached ends in an uncaught exception.
PreconditionLoud ==
    [][ (moves' # moves /\ mapRef = "undefined") => uncaught' = uncaught + 1 ]_vars

\* C11 -- Marker identity is unique: no two markers of the list have the same
\* creation time, the value used as their key.
UniqueCreatedAt ==
    \A i, j \in 1..Len(markers) :
        i # j => markerKey(markers[i]) # markerKey(markers[j])

\* C12 -- Selection validity: in every reachable state the selection is none
\* or one marker object that is an element of the marker list.
SelectionValid ==
    \/ selected = Null
    \/ \E i \in 1..Len(markers) : markers[i] = selected /\ selected.ref = i

\* the second of two markers is selected
SelectionValidWitness ==
    /\ Len(markers) = 2
    /\ selected # Null
    /\ selected.ref = 2

\* C13 -- moveTo ordering: a panTo on an attached map makes exactly two calls
\* on the map, panTo(c) and then setZoom(14); the view after the step is the
\* result of these calls in that order, center c and zoom 14; and the step
\* that moves the view changes no state of another handler.
MovedTo(c) ==
    /\ mapCalls' = << [op |-> "panTo", arg |-> c], [op |-> "setZoom", arg |-> PanZoom] >>
    /\ view' = MapSetZoom(MapPanTo(view, mapCalls'[1].arg), mapCalls'[2].arg)
    /\ view' = [center |-> c, zoom |-> PanZoom]

MoveOrdering ==
    [][ /\ \A c \in Coords : (SensorSuccess(c) /\ mapRef = "map") => MovedTo(c)
        /\ \A g \in geocodes, r \in CandidateLists :
              (GeocodeResolve(g, r) /\ r # <<>> /\ mapRef = "map") => MovedTo(r[1])
        /\ (mapCalls' # mapCalls \/ view' # view) =>
              /\ moves'.geo + moves'.search = moves.geo + moves.search + 1
              /\ UNCHANGED <<markers, selected, mapRef, value, suggestions, fetches>> ]_vars

\* the camera was moved by a geolocation answer and by a geocode answer
MoveOrderingWitness ==
    /\ Len(mapCalls) = 2
    /\ view.center = mapCalls[1].arg
    /\ view.zoom = PanZoom
    /\ moves.geo >= 1
    /\ moves.search >= 1
    /\ uncaught = 0
    /\ logged = 0

\* C14 -- Empty geocode result is a silent failure: a geocode answer with no
\* candidate is caught and logged inside the handler, no exception leaves it,
\* panTo is not invoked, the view does not move, and the markers and the
\* selection are unchanged.
EmptyResultSilent ==
    [][ \A g \in geocodes : GeocodeResolve(g, <<>>) =>
            /\ logged' = logged + 1
            /\ uncaught' = uncaught
            /\ moves' = moves
            /\ view' = view
            /\ mapCalls' = mapCalls
            /\ markers' = markers
            /\ selected' = selected ]_vars

\* a geocode request resolved without a panTo call, with a marker selected
EmptyResultSilentWitness ==
    /\ resolved = 1
    /\ moves.search = 0
    /\ logged = 1
    /\ uncaught = 0
    /\ selected # Null

\* C15 -- Separation of marker state from camera and search: a map click
\* changes the marker list and neither the selection nor anything of camera,
\* search or geolocation; a change of the selection changes nothing else; a
\* step that changes anything of camera, search or geolocation changes neither
\* the marker list nor the selection.
OtherVars ==
    <<mapRef, view, mapCalls, value, suggestions, fetches, issued, shownGen, geocodes,
      selects, resolved, locates, sensorPending, sensorOk, moves, logged, uncaught>>

FrameSeparation ==
    [][ /\ (clicks' # clicks \/ markers' # markers) =>
              selected' = selected /\ OtherVars' = OtherVars
        /\ selected' # selected =>
              markers' = markers /\ OtherVars' = OtherVars
        /\ OtherVars' # OtherVars =>
              markers' = markers /\ selected' = selected ]_vars

\* a marker is selected, a second marker exists, and a keystroke, a
\* suggestion fetch and a sensor answer have been handled
FrameSeparationWitness ==
    /\ Len(markers) = 2
    /\ selected # Null
    /\ suggestions.status = "OK"
    /\ sensorOk = 1
    /\ view.zoom = PanZoom

\* C17 -- The camera moves only on a successful resolution: a step changes
\* the view only if it is one panTo call made for one successful sensor
\* answer or one resolved geocode request; a map click, a change of the
\* selection, a keystroke, a fetch completion, a selection of a suggestion or
\* a failed request never changes the view; and the panTo calls never
\* outnumber the successful answers.
CameraOnlyOnSuccess ==
    [][ /\ view' # view =>
              \/ /\ sensorOk' = sensorOk + 1
                 /\ moves' = [moves EXCEPT !.geo = @ + 1]
                 /\ resolved' = resolved
              \/ /\ resolved' = resolved + 1
                 /\ moves' = [moves EXCEPT !.search = @ + 1]
                 /\ sensorOk' = sensorOk
        /\ (sensorOk' = sensorOk /\ resolved' = resolved) =>
              view' = view /\ moves' = moves
        /\ moves'.geo = sensorOk'
        /\ moves'.search <= resolved' ]_vars

\* a geocode answer and a sensor answer have moved the camera, and another
\* sensor request has failed
CameraOnlyOnSuccessWitness ==
    /\ moves.search = 1
    /\ moves.geo = 1
    /\ locates = 2
    /\ sensorPending = 0
    /\ view.zoom = PanZoom

\* C18 -- Overlapping camera requests are applied in completion order: a new
\* request cancels no outstanding one; every successful completion on an
\* attached map moves the view to its own coordinate at that step, whichever
\* requests were issued before or after it and whatever the view was.
OverlappingMoves ==
    [][ /\ selects' # selects =>
              geocodes \subseteq geocodes' /\ sensorPending' = sensorPending
        /\ locates' # locates =>
              geocodes' = geocodes /\ sensorPending' = sensorPending + 1
        /\ \A g \in geocodes, r \in CandidateLists :
              (GeocodeResolve(g, r) /\ r # <<>> /\ mapRef = "map") =>
                  /\ view' = [center |-> r[1], zoom |-> PanZoom]
                  /\ geocodes' = geocodes \ {g}
                  /\ sensorPending' = sensorPending
        /\ \A c \in Coords : (SensorSuccess(c) /\ mapRef = "map") =>
              /\ view' = [center |-> c, zoom |-> PanZoom]
              /\ geocodes' = geocodes ]_vars

\* of two selections the second has completed and moved the camera while the
\* first is still outstanding
OverlappingMovesWitness ==
    /\ selects = 2
    /\ \E g \in geocodes : g.id = 1
    /\ Cardinality(geocodes) = 1
    /\ moves.search = 1
    /\ logged = 0
    /\ view.zoom = PanZoom

\* C19 -- A geocode completion never touches the search text: a step that
\* answers a geocode request, with success or failure, changes neither the
\* query text nor the suggestions nor the fetches in flight.
GeocodeAnswered == geocodes' # geocodes /\ geocodes' \subseteq geocodes

GeocodeKeepsText ==
    [][ GeocodeAnswered =>
            /\ value' = value
            /\ suggestions' = suggestions
            /\ fetches' = fetches
            /\ issued' = issued ]_vars

\* a selection has been answered and the box holds text typed after the
\* selection, with its fetch still in flight
GeocodeKeepsTextWitness ==
    /\ selects = 1
    /\ geocodes = {}
    /\ resolved = 1
    /\ value \in Texts
    /\ fetches # {}

\* C16 -- The search session always returns to a reusable state: if the
\* geocode service answers, every selection that is awaiting its geocode
\* answer is eventually through, on success and on failure alike; and in every
\* state, resolving or not, a keystroke is accepted and any listed suggestion
\* can be selected (within the run's budget of events).
MaxSelects == MaxEvents \div 2    \* a selection needs a keystroke before it

SessionReusable ==
    /\ \A n \in 1..MaxSelects :
          (\E g \in geocodes : g.id = n) ~> ~(\E g \in geocodes : g.id = n)
    /\ [](selects <= MaxSelects)
    /\ [](Events < MaxEvents => ENABLED (\E t \in Texts : InputChange(t)))
    /\ []((Events < MaxEvents /\ suggestions.status = "OK") =>
              ENABLED (\E a \in Range(suggestions.data) : SelectSuggestion(a)))

\* a selection failed, another succeeded, and no request is pending
SessionReusableWitness ==
    /\ selects = 2
    /\ geocodes = {}
    /\ logged = 1
    /\ moves.search = 1
====
